---- MODULE Spec2Model ----
(***************************************************************************)
(* The Berkeley DB backend of the key/value store (store/bdb.c).           *)
(*                                                                         *)
(* Several independent processes open, use and close the store at one      *)
(* path P.  The file system holds the store file at P and the sidecar      *)
(* lock file at P-lock-hack.  Every system call and every engine call of   *)
(* store_bdb_open and store_bdb_close is one atomic step of the calling    *)
(* process.                                                                *)
(***************************************************************************)
EXTENDS Integers, Sequences, FiniteSets, TLC

\* ------------------------------------------------------------------ bounds
NumProcs == 2        \* independent processes using the path
MaxFaults == 2       \* failing system/engine calls injected in one run
MaxAccounts == 2     \* account records in the autocrypt account table

\* ------------------------------------------------------- program constants
pagesize == 512

Procs == 1 .. NumProcs
\* Inode numbers of the sidecar file's incarnations.  A number is free again
\* once neither the directory entry nor any descriptor refers to it.
Inodes == 1 .. (NumProcs + 1)
\* The process that uses the data operations in DataSpec.
Caller == CHOOSE p \in Procs : \A q \in Procs : p <= q

\* Key and value buffers handed in by the caller: byte strings, of which a
\* call uses the first klen (vlen) bytes.  Keys need not be NUL-terminated and
\* one key may be a prefix of another.
KeyBufs == {<<7>>, <<7, 7>>}
ValBufs == {<<3>>, <<1, 2>>}
EmptyDb == [k \in {} |-> <<>>]

\* The steps of store_bdb_open that can fail.
OpenSteps == {"sidecar", "lock", "envcreate", "envopen", "dbcreate", "dbopen"}

VARIABLES
    sidecar,    \* inode the name P-lock-hack refers to, 0: no such file
    lockedBy,   \* inode -> process holding the advisory lock on it, 0: nobody
    creator,    \* inode -> process whose open(O_CREAT) created it (history)
    holders,    \* inode -> processes that have held a handle on it (history)
    store,      \* the store file at P: [exists, data]
    pc,         \* process -> position in store_bdb_open / store_bdb_close
    handle,     \* process -> the caller's StoreHandle variable: "NULL" or "ctx"
    ctx,        \* process -> the native resources behind struct StoreDbCtx
    heap,       \* process -> heap blocks of bdb_sdata_new still allocated
    dbcfg,      \* process -> [flags, pagesize] used for DB->open
    cache,      \* process -> contents seen through its DB handle
    failedAt,   \* process -> the step of the current/last open that failed
    created,    \* process -> this open attempt created the sidecar file
    acq,        \* process -> resources acquired by this session, in order
    rel,        \* process -> release calls made for this session, in order
    relErr,     \* process -> release calls of this session that reported an error
    ret,        \* process -> outcome of the last API call that returned
    expect,     \* key -> [val, len] of the most recent successful store (history)
    gone,       \* keys removed by a successful delete and not stored since (history)
    flushLost,  \* a DB->close reported an error and dropped cached writes (history)
    faults      \* number of injected failures so far

\* The autocrypt account menu (autocrypt/autocrypt_acct_menu.c), a subsystem
\* of its own that does not touch the store.
VARIABLES
    accounts,   \* the account table: sequence of [enabled, prefer_encrypt]
    menu,       \* the local variable menu of mutt_autocrypt_account_menu
    mpc,        \* position in mutt_autocrypt_account_menu
    mlast       \* the last toggle carried out (history)

shared == <<sidecar, lockedBy, creator, holders, store>>
local == <<pc, handle, ctx, heap, dbcfg, cache>>
hist == <<failedAt, created, acq, rel, relErr, ret, expect, gone, flushLost, faults>>
acct == <<accounts, menu, mpc, mlast>>
vars == <<shared, local, hist, acct>>

\* ------------------------------------------------------------ helper values
NoCtx == [fd |-> -1, env |-> "none", db |-> "none"]
NoHeap == [ctx |-> FALSE, lockfile |-> FALSE]
NoCfg == [flags |-> {}, pagesize |-> 0]
NoMenu == [null |-> TRUE, data |-> <<>>, max |-> 0]
NoToggle == [op |-> "none", rc |-> 0, index |-> 0, before |-> <<>>]
NoRet == [op |-> "none", rc |-> "0", key |-> <<>>, found |-> FALSE, data |-> <<>>, size |-> 0]

Ret(op, rc) == [NoRet EXCEPT !.op = op, !.rc = rc]

Alive(i) == sidecar = i \/ \E p \in Procs : ctx[p].fd = i
FreshInode == CHOOSE i \in Inodes : ~Alive(i) /\ \A j \in Inodes : ~Alive(j) => i <= j

CanFail == faults < MaxFaults

Boot(injected) ==
    /\ sidecar = 0
    /\ lockedBy = [i \in Inodes |-> 0]
    /\ creator = [i \in Inodes |-> 0]
    /\ holders = [i \in Inodes |-> {}]
    /\ store = [exists |-> FALSE, data |-> EmptyDb]
    /\ pc = [p \in Procs |-> "idle"]
    /\ handle = [p \in Procs |-> "NULL"]
    /\ ctx = [p \in Procs |-> NoCtx]
    /\ heap = [p \in Procs |-> NoHeap]
    /\ dbcfg = [p \in Procs |-> NoCfg]
    /\ cache = [p \in Procs |-> EmptyDb]
    /\ failedAt = [p \in Procs |-> "none"]
    /\ created = [p \in Procs |-> FALSE]
    /\ acq = [p \in Procs |-> <<>>]
    /\ rel = [p \in Procs |-> <<>>]
    /\ relErr = [p \in Procs |-> {}]
    /\ ret = [p \in Procs |-> NoRet]
    /\ expect = EmptyDb
    /\ gone = {}
    /\ flushLost = FALSE
    /\ faults = injected
    /\ accounts = <<>>
    /\ menu = NoMenu
    /\ mpc = "out"
    /\ mlast = NoToggle

\* The state after start-up: no file, no session.
Init == Boot(0)
\* The same, with no failure left to inject.
QuietInit == Boot(MaxFaults)

\* ------------------------------------------------------------ OS primitives
\* mutt_file_lock(fd, excl = true, ...): the exclusive advisory lock on the
\* descriptor's file can be taken when nobody holds it; the call waits
\* otherwise.
LockObtainable(i) == lockedBy[i] = 0

\* mutt_file_unlock(fd) that succeeds, by process p on inode i.
Unlocked(lk, p, i) == IF i \in Inodes /\ lk[i] = p THEN [lk EXCEPT ![i] = 0] ELSE lk

\* Variant: the unlink is left out.
Unlinked_Skipped(name) == name
\* unlink(P-lock-hack): the name is removed, whatever file it refers to.
Unlinked(name) == 0

\* ------------------------------------------------------------ store_bdb_open
\* bdb.c:116-132.  bdb_sdata_new, buf_printf and open(O_WRONLY | O_CREAT) of
\* the sidecar file.  On failure FREE(&ctx) and return NULL.
Open_Sidecar(p) ==
    /\ UNCHANGED acct
    /\ pc[p] = "idle"
    /\ handle[p] = "NULL"
    /\ UNCHANGED <<lockedBy, store, handle, dbcfg, cache, expect, gone, flushLost>>
    /\ rel' = [rel EXCEPT ![p] = <<>>]
    /\ relErr' = [relErr EXCEPT ![p] = {}]
    /\ \/ LET ino == IF sidecar # 0 THEN sidecar ELSE FreshInode IN
          /\ sidecar' = ino
          /\ creator' = IF sidecar = 0 THEN [creator EXCEPT ![ino] = p] ELSE creator
          /\ holders' = IF sidecar = 0 THEN [holders EXCEPT ![ino] = {}] ELSE holders
          /\ created' = [created EXCEPT ![p] = (sidecar = 0)]
          /\ ctx' = [ctx EXCEPT ![p] = [fd |-> ino, env |-> "none", db |-> "none"]]
          /\ heap' = [heap EXCEPT ![p] = [ctx |-> TRUE, lockfile |-> TRUE]]
          /\ acq' = [acq EXCEPT ![p] = <<"fd">>]
          /\ failedAt' = [failedAt EXCEPT ![p] = "none"]
          /\ pc' = [pc EXCEPT ![p] = "lock"]
          /\ UNCHANGED <<ret, faults>>
       \/ /\ CanFail
          /\ faults' = faults + 1
          /\ ctx' = [ctx EXCEPT ![p] = NoCtx]
          /\ heap' = [heap EXCEPT ![p] = [ctx |-> FALSE, lockfile |-> TRUE]]
          /\ created' = [created EXCEPT ![p] = FALSE]
          /\ acq' = [acq EXCEPT ![p] = <<>>]
          /\ failedAt' = [failedAt EXCEPT ![p] = "sidecar"]
          /\ ret' = [ret EXCEPT ![p] = Ret("open_null", "NULL")]
          /\ UNCHANGED <<sidecar, creator, holders, pc>>

\* A step of open that succeeds and moves on, or fails and jumps to a label
\* of the cleanup ladder.  failedAt records the failing step.
Goto(p, to) == pc' = [pc EXCEPT ![p] = to]
Fails(p, step, label) ==
    /\ failedAt' = [failedAt EXCEPT ![p] = step]
    /\ Goto(p, label)
Injected(p, step, label) ==
    /\ CanFail
    /\ faults' = faults + 1
    /\ Fails(p, step, label)

\* The labels of the cleanup ladder the failing steps jump to.
\* Variant: a failing lock call unlocks on its way out.
LockFailLabel_Unlock == "fail_unlock"
LockFailLabel == "fail_close"
EnvCreateFailLabel == "fail_unlock"
\* Variant: a failing environment open skips the environment's close.
EnvOpenFailLabel_SkipEnv == "fail_unlock"
EnvOpenFailLabel == "fail_env"
DbCreateFailLabel == "fail_env"
DbOpenFailLabel == "fail_db"

\* bdb.c:134-135.  mutt_file_lock(ctx->fd, true, true); goto fail_close.
Open_Lock(p) ==
    /\ UNCHANGED acct
    /\ pc[p] = "lock"
    /\ UNCHANGED <<sidecar, creator, holders, store, handle, heap, ctx, dbcfg, cache, created,
                   rel, relErr, ret, expect, gone, flushLost>>
    /\ \/ /\ LockObtainable(ctx[p].fd)
          /\ lockedBy' = [lockedBy EXCEPT ![ctx[p].fd] = p]
          /\ acq' = [acq EXCEPT ![p] = Append(@, "lock")]
          /\ Goto(p, "envcreate")
          /\ UNCHANGED <<failedAt, faults>>
       \/ /\ Injected(p, "lock", LockFailLabel)
          /\ UNCHANGED <<lockedBy, acq>>

\* bdb.c:137-139.  db_env_create(&ctx->env, 0); goto fail_unlock.
Open_EnvCreate(p) ==
    /\ UNCHANGED acct
    /\ pc[p] = "envcreate"
    /\ UNCHANGED <<shared, handle, heap, dbcfg, cache, created, rel, relErr, ret, expect,
                   gone, flushLost>>
    /\ \/ /\ ctx' = [ctx EXCEPT ![p].env = "created"]
          /\ acq' = [acq EXCEPT ![p] = Append(@, "env")]
          /\ Goto(p, "envopen")
          /\ UNCHANGED <<failedAt, faults>>
       \/ /\ Injected(p, "envcreate", EnvCreateFailLabel)
          /\ UNCHANGED <<ctx, acq>>

\* bdb.c:141-143.  ctx->env->open(...); goto fail_env.
Open_EnvOpen(p) ==
    /\ UNCHANGED acct
    /\ pc[p] = "envopen"
    /\ UNCHANGED <<shared, handle, heap, dbcfg, cache, created, acq, rel, relErr, ret,
                   expect, gone, flushLost>>
    /\ \/ /\ ctx' = [ctx EXCEPT ![p].env = "open"]
          /\ Goto(p, "dbcreate")
          /\ UNCHANGED <<failedAt, faults>>
       \/ /\ Injected(p, "envopen", EnvOpenFailLabel)
          /\ UNCHANGED ctx

\* bdb.c:145-148.  db_create(&ctx->db, ctx->env, 0); goto fail_env.
Open_DbCreate(p) ==
    /\ UNCHANGED acct
    /\ pc[p] = "dbcreate"
    /\ UNCHANGED <<shared, handle, heap, dbcfg, cache, created, rel, relErr, ret, expect,
                   gone, flushLost>>
    /\ \/ /\ ctx' = [ctx EXCEPT ![p].db = "created"]
          /\ acq' = [acq EXCEPT ![p] = Append(@, "db")]
          /\ Goto(p, "probe")
          /\ UNCHANGED <<failedAt, faults>>
       \/ /\ Injected(p, "dbcreate", DbCreateFailLabel)
          /\ UNCHANGED <<ctx, acq>>

\* The errno of stat(path): 0 when the store file is there, ENOENT when it
\* is not; any other error (EACCES, EIO, ...) is an injected failure.
StatResults == IF store.exists THEN {"OK", "EOTHER"} ELSE {"ENOENT", "EOTHER"}

\* Variant: every failing probe asks for exclusive create.
CreateFlags_AnyError(st) ==
    IF st # "OK"
    THEN [flags |-> {"DB_CREATE", "DB_EXCL"}, pagesize |-> pagesize]
    ELSE [flags |-> {"DB_CREATE"}, pagesize |-> 0]
\* bdb.c:150-157.  createflags and page size follow the probe.
CreateFlags(st) ==
    IF st = "ENOENT"
    THEN [flags |-> {"DB_CREATE", "DB_EXCL"}, pagesize |-> pagesize]
    ELSE [flags |-> {"DB_CREATE"}, pagesize |-> 0]

Open_Probe(p) ==
    /\ UNCHANGED acct
    /\ pc[p] = "probe"
    /\ UNCHANGED <<shared, handle, heap, ctx, cache, failedAt, created, acq, rel, relErr,
                   ret, expect, gone, flushLost>>
    /\ \E st \in StatResults :
        /\ st = "EOTHER" => CanFail
        /\ faults' = IF st = "EOTHER" THEN faults + 1 ELSE faults
        /\ dbcfg' = [dbcfg EXCEPT ![p] = CreateFlags(st)]
    /\ Goto(p, "dbopen")

\* DB->open with DB_EXCL refuses a file that is already there.
ExclRefused(cfg, st) == "DB_EXCL" \in cfg.flags /\ st.exists

\* bdb.c:159-164.  ctx->db->open(...); goto fail_db; else return the handle.
Open_DbOpen(p) ==
    /\ UNCHANGED acct
    /\ pc[p] = "dbopen"
    /\ UNCHANGED <<sidecar, lockedBy, creator, heap, dbcfg, created, acq, rel, relErr,
                   expect, gone, flushLost>>
    /\ \/ /\ ~ExclRefused(dbcfg[p], store)
          /\ holders' = [holders EXCEPT ![ctx[p].fd] = @ \cup {p}]
          /\ store' = [store EXCEPT !.exists = TRUE]
          /\ cache' = [cache EXCEPT ![p] = store.data]
          /\ ctx' = [ctx EXCEPT ![p].db = "open"]
          /\ handle' = [handle EXCEPT ![p] = "ctx"]
          /\ ret' = [ret EXCEPT ![p] = Ret("open_ok", "ctx")]
          /\ Goto(p, "ready")
          /\ UNCHANGED <<failedAt, faults>>
       \/ /\ ExclRefused(dbcfg[p], store)
          /\ Fails(p, "dbopen", DbOpenFailLabel)
          /\ UNCHANGED <<holders, store, cache, ctx, handle, ret, faults>>
       \/ /\ Injected(p, "dbopen", DbOpenFailLabel)
          /\ UNCHANGED <<holders, store, cache, ctx, handle, ret>>

\* ------------------------------------------------------------ release calls
\* The five release calls, shared by the cleanup ladder of store_bdb_open
\* (bdb.c:166-175) and by store_bdb_close (bdb.c:265-271).  The code ignores
\* the result of each; a call that reports an error is recorded in relErr.
Released(p, what, ok) ==
    /\ rel' = [rel EXCEPT ![p] = Append(@, what)]
    /\ relErr' = [relErr EXCEPT ![p] = IF ok THEN @ ELSE @ \cup {what}]
    /\ faults' = IF ok THEN faults ELSE faults + 1

\* The store file once the cached contents c are written back to it.
Flushed(st, c) == [st EXCEPT !.data = c]

\* db->close(db, 0): cached writes of an open database reach the store file;
\* when the call reports an error they may be lost.  The handle is gone
\* either way.
Rel_Db(p, to) ==
    /\ UNCHANGED acct
    /\ \E ok \in BOOLEAN, flushed \in BOOLEAN :
        /\ ok => flushed
        /\ ~ok => CanFail
        /\ LET dirty == ctx[p].db = "open" IN
            /\ store' = IF dirty /\ flushed THEN Flushed(store, cache[p]) ELSE store
            /\ flushLost' = (flushLost \/ (dirty /\ ~flushed /\ cache[p] # store.data))
        /\ Released(p, "db", ok)
    /\ ctx' = [ctx EXCEPT ![p].db = "none"]
    /\ cache' = [cache EXCEPT ![p] = EmptyDb]
    /\ Goto(p, to)
    /\ UNCHANGED <<sidecar, lockedBy, creator, holders, handle, heap, dbcfg, failedAt, created, acq,
                   ret, expect, gone>>

\* env->close(env, 0).
Rel_Env(p, to) ==
    /\ UNCHANGED acct
    /\ \E ok \in BOOLEAN :
        /\ ~ok => CanFail
        /\ Released(p, "env", ok)
    /\ ctx' = [ctx EXCEPT ![p].env = "none"]
    /\ Goto(p, to)
    /\ UNCHANGED <<shared, handle, heap, dbcfg, cache, failedAt, created, acq, ret, expect,
                   gone, flushLost>>

\* mutt_file_unlock(fd): a call that reports an error leaves the lock.
Rel_Unlock(p, to) ==
    /\ UNCHANGED acct
    /\ \E ok \in BOOLEAN :
        /\ ~ok => CanFail
        /\ Released(p, "lock", ok)
        /\ lockedBy' = IF ok THEN Unlocked(lockedBy, p, ctx[p].fd) ELSE lockedBy
    /\ Goto(p, to)
    /\ UNCHANGED <<sidecar, creator, holders, store, handle, heap, ctx, dbcfg, cache, failedAt,
                   created, acq, ret, expect, gone, flushLost>>

\* close(fd): the descriptor is gone, and with it any lock still held on it.
Rel_Fd(p, to) ==
    /\ UNCHANGED acct
    /\ Released(p, "fd", TRUE)
    /\ lockedBy' = Unlocked(lockedBy, p, ctx[p].fd)
    /\ ctx' = [ctx EXCEPT ![p].fd = -1]
    /\ Goto(p, to)
    /\ UNCHANGED <<sidecar, creator, holders, store, handle, heap, dbcfg, cache, failedAt, created,
                   acq, ret, expect, gone, flushLost>>

\* unlink(lockfile), then bdb_sdata_free: buf_dealloc(&lockfile), FREE(ptr).
Rel_Unlink(p, to) ==
    /\ UNCHANGED acct
    /\ Released(p, "unlink", TRUE)
    /\ sidecar' = Unlinked(sidecar)
    /\ heap' = [heap EXCEPT ![p] = NoHeap]
    /\ Goto(p, to)
    /\ UNCHANGED <<lockedBy, creator, holders, store, ctx, dbcfg, cache, failedAt, created, acq,
                   expect, gone, flushLost>>

\* ------------------------------------------- cleanup ladder of store_bdb_open
\* bdb.c:166-167.  fail_db: ctx->db->close(ctx->db, 0).
Fail_Db(p) == pc[p] = "fail_db" /\ Rel_Db(p, "fail_env")
\* bdb.c:168-169.  fail_env: ctx->env->close(ctx->env, 0).
Fail_Env(p) == pc[p] = "fail_env" /\ Rel_Env(p, "fail_unlock")
\* bdb.c:170-171.  fail_unlock: mutt_file_unlock(ctx->fd).
Fail_Unlock(p) == pc[p] = "fail_unlock" /\ Rel_Unlock(p, "fail_close")
\* bdb.c:172-173.  fail_close: close(ctx->fd).
Fail_Close(p) == pc[p] = "fail_close" /\ Rel_Fd(p, "fail_unlink")
\* bdb.c:174-177.  unlink, bdb_sdata_free(&ctx), return NULL.
Fail_Unlink(p) ==
    /\ pc[p] = "fail_unlink"
    /\ Rel_Unlink(p, "idle")
    /\ ret' = [ret EXCEPT ![p] = Ret("open_null", "NULL")]
    /\ UNCHANGED handle

\* ----------------------------------------------------------- store_bdb_close
\* Variant: the guard is missing.
CloseIsNoop_Never(ptr, h) == FALSE
\* bdb.c:259-260.  if (!ptr || !*ptr) return;
CloseIsNoop(ptr, h) == ptr = "NULL" \/ h = "NULL"

\* The caller is between two API calls.
Between(p) == pc[p] \in {"idle", "ready"}

\* store_bdb_close(NULL), or store_bdb_close(&h) with h == NULL.
Close_Null(p) ==
    /\ UNCHANGED acct
    /\ Between(p)
    /\ \E ptr \in {"NULL", "&handle"} : CloseIsNoop(ptr, handle[p])
    /\ ret' = [ret EXCEPT ![p] = Ret("close_noop", "void")]
    /\ UNCHANGED <<shared, local, failedAt, created, acq, rel, relErr, expect, gone,
                   flushLost, faults>>

\* bdb.c:263-265.  db->db->close(db->db, 0).
Close_Db(p) ==
    /\ Between(p)
    /\ ~CloseIsNoop("&handle", handle[p])
    /\ Rel_Db(p, "close_env")
\* bdb.c:266.  db->env->close(db->env, 0).
Close_Env(p) == pc[p] = "close_env" /\ Rel_Env(p, "close_unlock")
\* Variant: close gives up when the unlock reports an error.
Close_Unlock_Abort(p) ==
    /\ pc[p] = "close_unlock"
    /\ \E to \in {"close_fd", "idle"} :
        /\ Rel_Unlock(p, to)
        /\ (to = "idle") = ("lock" \in relErr'[p])
\* bdb.c:267.  mutt_file_unlock(db->fd).
Close_Unlock(p) == pc[p] = "close_unlock" /\ Rel_Unlock(p, "close_fd")
\* bdb.c:268.  close(db->fd).
Close_Fd(p) == pc[p] = "close_fd" /\ Rel_Fd(p, "close_unlink")
\* bdb.c:269-272.  unlink, bdb_sdata_free(ptr): the caller's handle is NULL.
Close_Unlink(p) ==
    /\ pc[p] = "close_unlink"
    /\ Rel_Unlink(p, "idle")
    /\ handle' = [handle EXCEPT ![p] = "NULL"]
    /\ ret' = [ret EXCEPT ![p] = Ret("close", "void")]

\* ------------------------------------------------------- engine data calls
\* dbt_init (bdb.c:89-97).
dbt_init(data, len) ==
    [data |-> data, null |-> FALSE, size |-> len, ulen |-> len, dlen |-> 0, doff |-> 0,
     flags |-> "DB_DBT_USERMEM"]

\* Variant: the size field is left non-zero.
dbt_empty_init_Dirty ==
    [data |-> <<>>, null |-> TRUE, size |-> 1, ulen |-> 0, dlen |-> 0, doff |-> 0,
     flags |-> "0"]
\* dbt_empty_init (bdb.c:103-111).
dbt_empty_init ==
    [data |-> <<>>, null |-> TRUE, size |-> 0, ulen |-> 0, dlen |-> 0, doff |-> 0,
     flags |-> "0"]

\* The bytes a DBT denotes: the first size bytes at data.
Bytes(dbt) == SubSeq(dbt.data, 1, dbt.size)

\* Outcomes of an engine call on an open database.
EngineErrors == {"EIO"}

\* DB->get with DB_DBT_MALLOC: on a hit the DBT receives a fresh copy of the
\* value and its size; on DB_NOTFOUND or an error it is left as it was.
DbGet(db, dkey, data, rc) ==
    IF rc = "0"
    THEN [data EXCEPT !.data = db[Bytes(dkey)], !.null = FALSE,
                      !.size = Len(db[Bytes(dkey)])]
    ELSE data

\* Result code of a get, put or del that the engine carries out.
DbFound(db, dkey) == IF Bytes(dkey) \in DOMAIN db THEN "0" ELSE "DB_NOTFOUND"

\* Variant: DB_NOOVERWRITE, an existing record is kept.
DbPut_NoOverwrite(db, dkey, databuf) ==
    IF SubSeq(dkey.data, 1, dkey.size) \in DOMAIN db
    THEN db
    ELSE (SubSeq(dkey.data, 1, dkey.size) :> SubSeq(databuf.data, 1, databuf.size)) @@ db
\* DB->put with flags 0: insert or overwrite.
DbPut(db, dkey, databuf) == (Bytes(dkey) :> Bytes(databuf)) @@ db

\* Variant: the record stays.
DbDel_Kept(db, dkey) == db
\* DB->del: the record is removed.
DbDel(db, dkey) == [k \in DOMAIN db \ {Bytes(dkey)} |-> db[k]]

\* ----------------------------------------------------------- store_bdb_fetch
\* bdb.c:186-202 with a non-NULL handle.  The result of DB->get is ignored;
\* ret.rc keeps it for the record, the caller sees only (data, *vlen).
store_bdb_fetch(p, key, klen) ==
    /\ UNCHANGED acct
    /\ pc[p] = "ready"
    /\ \E rc \in {DbFound(cache[p], dbt_init(key, klen))} \cup EngineErrors :
        LET dkey == dbt_init(key, klen)
            data == DbGet(cache[p], dkey, [dbt_empty_init EXCEPT !.flags = "DB_DBT_MALLOC"], rc)
        IN ret' = [ret EXCEPT ![p] = [op |-> "fetch", rc |-> rc, key |-> Bytes(dkey),
                                      found |-> ~data.null, data |-> data.data,
                                      size |-> data.size]]
    /\ UNCHANGED <<shared, local, failedAt, created, acq, rel, relErr, expect, gone,
                   flushLost, faults>>

\* ----------------------------------------------------------- store_bdb_store
\* bdb.c:219-235 with a non-NULL handle: returns the result of DB->put.
store_bdb_store(p, key, klen, value, vlen) ==
    /\ UNCHANGED acct
    /\ pc[p] = "ready"
    /\ LET dkey == dbt_init(key, klen)
           databuf == [dbt_empty_init EXCEPT !.flags = "DB_DBT_USERMEM", !.data = value,
                                             !.null = FALSE, !.size = vlen, !.ulen = vlen]
       IN \E rc \in {"0"} \cup EngineErrors :
            /\ ret' = [ret EXCEPT ![p] = Ret("store", rc)]
            /\ IF rc = "0"
               THEN /\ cache' = [cache EXCEPT ![p] = DbPut(@, dkey, databuf)]
                    /\ expect' = (Bytes(dkey) :> [val |-> SubSeq(value, 1, vlen), len |-> vlen])
                                 @@ expect
                    /\ gone' = gone \ {Bytes(dkey)}
               ELSE UNCHANGED <<cache, expect, gone>>
    /\ UNCHANGED <<shared, pc, handle, heap, ctx, dbcfg, failedAt, created, acq, rel, relErr,
                   flushLost, faults>>

\* --------------------------------------------------- store_bdb_delete_record
\* bdb.c:243-251 with a non-NULL handle: returns the result of DB->del.
store_bdb_delete_record(p, key, klen) ==
    /\ UNCHANGED acct
    /\ pc[p] = "ready"
    /\ LET dkey == dbt_init(key, klen) IN
        \E rc \in {DbFound(cache[p], dkey)} \cup EngineErrors :
            /\ ret' = [ret EXCEPT ![p] = [Ret("delete", rc) EXCEPT !.key = Bytes(dkey)]]
            /\ IF rc = "0"
               THEN /\ cache' = [cache EXCEPT ![p] = DbDel(@, dkey)]
                    /\ expect' = [k \in DOMAIN expect \ {Bytes(dkey)} |-> expect[k]]
                    /\ gone' = gone \cup {Bytes(dkey)}
               ELSE UNCHANGED <<cache, expect, gone>>
    /\ UNCHANGED <<shared, pc, handle, heap, ctx, dbcfg, failedAt, created, acq, rel, relErr,
                   flushLost, faults>>

\* ---------------------------------------------------------- null arguments
\* The calls with a NULL path or a NULL handle return at once.  The caller
\* may make them whenever it is between two calls.
NullCallFrame == UNCHANGED <<shared, local, failedAt, created, acq, rel, relErr, expect,
                             gone, flushLost, faults, acct>>

\* bdb.c:118-119.  store_bdb_open(NULL): return NULL.
Open_NullPath(p) ==
    /\ Between(p)
    /\ ret' = [ret EXCEPT ![p] = Ret("open_nopath", "NULL")]
    /\ NullCallFrame

\* Variant: the length output is cleared before the return.
vlen_Unwritten_Cleared(prev) == 0
\* bdb.c:186-187.  The return comes before *vlen is assigned: the caller's
\* variable keeps the value it had.
vlen_Unwritten(prev) == prev

\* bdb.c:186-187.  store_bdb_fetch(NULL, ...): return NULL.
Fetch_NullHandle(p) ==
    /\ Between(p)
    /\ ret' = [ret EXCEPT ![p] = [Ret("fetch_null", "NULL") EXCEPT
                                    !.size = vlen_Unwritten(ret[p].size)]]
    /\ NullCallFrame

\* bdb.c:219-220.  store_bdb_store(NULL, ...): return -1.
Store_NullHandle(p) ==
    /\ Between(p)
    /\ ret' = [ret EXCEPT ![p] = Ret("store_null", "-1")]
    /\ NullCallFrame

\* bdb.c:243-244.  store_bdb_delete_record(NULL, ...): return -1.
Delete_NullHandle(p) ==
    /\ Between(p)
    /\ ret' = [ret EXCEPT ![p] = Ret("delete_null", "-1")]
    /\ NullCallFrame

\* ---------------------------------------------- autocrypt account menu
\* The account-record data access API the menu calls.  Result codes: 0 is
\* success, anything else failure.
ResultCodes == {0, -1}
\* A record mutt_autocrypt_account_init can insert.
NewAccounts == {[enabled |-> TRUE, prefer_encrypt |-> pe] : pe \in BOOLEAN}
\* mutt_autocrypt_db_account_update(account): the record is rewritten on
\* success and untouched on failure.
account_update(db, i, account, rc) == IF rc = 0 THEN [db EXCEPT ![i] = account] ELSE db
\* mutt_autocrypt_db_account_delete(account).
account_delete(db, i, rc) ==
    IF rc = 0 THEN [j \in 1 .. Len(db) - 1 |-> IF j < i THEN db[j] ELSE db[j + 1]] ELSE db

\* create_menu (part_000:134-176): NULL when the account list cannot be read,
\* else a menu with one entry per account; menu->data is NULL when there is
\* no account.
create_menu(db, rc) ==
    IF rc < 0
    THEN NoMenu
    ELSE [null |-> FALSE,
          data |-> [i \in 1 .. Len(db) |-> [num |-> i, account |-> db[i]]],
          max |-> Len(db)]

\* free_menu (part_000:178-194) on a non-NULL menu: mutt_menu_destroy leaves
\* the caller's pointer NULL.
free_menu(m) == NoMenu

\* Variant: a failed update is not rolled back.
toggle_active_NoRollback(entry, rc) == [entry EXCEPT !.account.enabled = ~@]
\* toggle_active (part_000:196-208): the entry after the call, rc being the
\* result of the account update.
toggle_active(entry, rc) ==
    LET flipped == [entry EXCEPT !.account.enabled = ~@] IN
    IF rc # 0 THEN [flipped EXCEPT !.account.enabled = ~@] ELSE flipped

\* toggle_prefer_encrypt (part_000:210-218).
toggle_prefer_encrypt(entry, rc) ==
    LET flipped == [entry EXCEPT !.account.prefer_encrypt = ~@] IN
    IF rc # 0 THEN [flipped EXCEPT !.account.prefer_encrypt = ~@] ELSE flipped

MenuFrame == UNCHANGED <<shared, local, hist>>

\* part_000:220-235.  Entry of mutt_autocrypt_account_menu: return when
\* autocrypt is off or its initialisation fails, or when create_menu fails.
Menu_Enter ==
    /\ mpc \in {"out", "returned"}
    /\ \E on \in BOOLEAN, rc \in ResultCodes :
        IF ~on
        THEN mpc' = "returned" /\ UNCHANGED menu
        ELSE /\ menu' = create_menu(accounts, rc)
             /\ mpc' = IF menu'.null THEN "returned" ELSE "loop"
    /\ UNCHANGED <<accounts, mlast>>
    /\ MenuFrame

\* part_000:239.  mutt_menu_loop(menu) reads through the menu pointer; with
\* a NULL pointer the process faults.
Menu_LoopNull ==
    /\ mpc = "loop"
    /\ menu.null
    /\ mpc' = "crashed"
    /\ UNCHANGED <<accounts, menu, mlast>>
    /\ MenuFrame

\* part_000:241-243.  OP_EXIT: done = 1.
Op_Exit ==
    /\ mpc = "loop"
    /\ ~menu.null
    /\ mpc' = "done"
    /\ UNCHANGED <<accounts, menu, mlast>>
    /\ MenuFrame

\* part_000:293.  free_menu(&menu) after the loop.
Menu_Free ==
    /\ mpc = "done"
    /\ IF menu.null
       THEN mpc' = "crashed" /\ UNCHANGED menu
       ELSE mpc' = "returned" /\ menu' = free_menu(menu)
    /\ UNCHANGED <<accounts, mlast>>
    /\ MenuFrame

\* part_000:245-251.  OP_AUTOCRYPT_CREATE_ACCT: when the account is created
\* the menu is freed and built again.
Op_Create ==
    /\ mpc = "loop"
    /\ ~menu.null
    /\ \/ UNCHANGED <<accounts, menu>>
       \/ /\ Len(accounts) < MaxAccounts
          /\ \E a \in NewAccounts, rc \in ResultCodes :
              /\ accounts' = Append(accounts, a)
              /\ menu' = create_menu(accounts', rc)
    /\ UNCHANGED <<mpc, mlast>>
    /\ MenuFrame

\* part_000:253-271.  OP_AUTOCRYPT_DELETE_ACCT on the current entry, after
\* confirmation: when the record is deleted the menu is freed and built again.
Op_Delete ==
    /\ mpc = "loop"
    /\ ~menu.null
    /\ \/ UNCHANGED <<accounts, menu>>
       \/ /\ menu.max > 0
          /\ \E current \in 1 .. menu.max, rc \in ResultCodes :
              /\ accounts' = account_delete(accounts, current, 0)
              /\ menu' = create_menu(accounts', rc)
    /\ UNCHANGED <<mpc, mlast>>
    /\ MenuFrame

\* A toggle of the current entry: the flipped record is handed to the account
\* update, whose result decides whether the flip stays.
Toggle(op, current, rc) ==
    LET entry == menu.data[current]
        sent == IF op = "active" THEN toggle_active(entry, 0)
                                 ELSE toggle_prefer_encrypt(entry, 0)
        after == IF op = "active" THEN toggle_active(entry, rc)
                                  ELSE toggle_prefer_encrypt(entry, rc)
    IN /\ accounts' = account_update(accounts, current, sent.account, rc)
       /\ menu' = [menu EXCEPT !.data[current] = after]
       /\ mlast' = [op |-> op, rc |-> rc, index |-> current, before |-> <<entry.account>>]

\* part_000:273-280.  OP_AUTOCRYPT_TOGGLE_ACTIVE.
Op_ToggleActive ==
    /\ mpc = "loop"
    /\ ~menu.null
    /\ menu.max > 0
    /\ \E current \in 1 .. menu.max, rc \in ResultCodes : Toggle("active", current, rc)
    /\ UNCHANGED mpc
    /\ MenuFrame

\* part_000:282-289.  OP_AUTOCRYPT_TOGGLE_PREFER.
Op_TogglePrefer ==
    /\ mpc = "loop"
    /\ ~menu.null
    /\ menu.max > 0
    /\ \E current \in 1 .. menu.max, rc \in ResultCodes : Toggle("prefer", current, rc)
    /\ UNCHANGED mpc
    /\ MenuFrame

\* ------------------------------------------------------------ specifications
OpenStep(p) ==
    \/ Open_Sidecar(p) \/ Open_Lock(p) \/ Open_EnvCreate(p) \/ Open_EnvOpen(p)
    \/ Open_DbCreate(p) \/ Open_Probe(p) \/ Open_DbOpen(p)
FailStep(p) ==
    \/ Fail_Db(p) \/ Fail_Env(p) \/ Fail_Unlock(p) \/ Fail_Close(p) \/ Fail_Unlink(p)
CloseStep(p) ==
    \/ Close_Db(p) \/ Close_Env(p) \/ Close_Unlock(p) \/ Close_Fd(p) \/ Close_Unlink(p)
Fetch(p) == \E key \in KeyBufs : \E klen \in 1 .. Len(key) : store_bdb_fetch(p, key, klen)
Store(p) ==
    \E key \in KeyBufs, value \in ValBufs :
        \E klen \in 1 .. Len(key), vlen \in 1 .. Len(value) :
            store_bdb_store(p, key, klen, value, vlen)
Delete(p) ==
    \E key \in KeyBufs : \E klen \in 1 .. Len(key) : store_bdb_delete_record(p, key, klen)

\* Independent processes opening and closing the store at P.
Next == \E p \in Procs : OpenStep(p) \/ FailStep(p) \/ CloseStep(p)
Spec == Init /\ [][Next]_vars
\* The same processes when no system or engine call fails by itself.
RaceNext == \E p \in Procs : OpenStep(p) \/ CloseStep(p)
RaceSpec == QuietInit /\ [][RaceNext]_vars

\* One process working on the store at P: sessions, data calls, and close
\* calls on a NULL handle.
NextData ==
    \/ OpenStep(Caller) \/ FailStep(Caller) \/ CloseStep(Caller)
    \/ Close_Null(Caller) \/ Fetch(Caller) \/ Store(Caller) \/ Delete(Caller)
DataSpec == Init /\ [][NextData]_vars

\* One process whose calls do not fail by themselves, making calls with NULL
\* arguments between and during its sessions.
NullNext ==
    \/ OpenStep(Caller) \/ CloseStep(Caller) \/ Fetch(Caller) \/ Store(Caller)
    \/ Open_NullPath(Caller) \/ Fetch_NullHandle(Caller)
    \/ Store_NullHandle(Caller) \/ Delete_NullHandle(Caller)
NullSpec == QuietInit /\ [][NullNext]_vars

\* The account menu, entered any number of times.
MenuNext ==
    \/ Menu_Enter \/ Menu_LoopNull \/ Op_Exit \/ Menu_Free
    \/ Op_Create \/ Op_Delete \/ Op_ToggleActive \/ Op_TogglePrefer
MenuSpec == Init /\ [][MenuNext]_vars

\* ------------------------------------------------------------------- claims
\* Process p holds a successfully opened handle on P: store_bdb_open has
\* returned it and store_bdb_close has not been called on it.
Holds(p) == pc[p] = "ready"

\* C1.  Mutual exclusion: in every reachable state of any interleaving of
\* store_bdb_open and store_bdb_close by independent processes on the same
\* path, at most one process holds a successfully opened handle.
C1_MutualExclusion == \A p, q \in Procs : Holds(p) /\ Holds(q) => p = q

\* C2.  Exclusive-access ordering: of two processes opening P concurrently,
\* the second obtains its handle only once the first has closed, and at that
\* point the sidecar lock file of the first session no longer exists.  Here q
\* is the second: it holds a handle on the sidecar file that p's session used.
C2_SecondAfterFirstClosed ==
    \A p, q \in Procs :
        (p # q /\ Holds(q) /\ p \in holders[ctx[q].fd])
            => (ctx[p].fd # ctx[q].fd /\ sidecar # ctx[q].fd)

\* C4.  Lock-acquire failure has no side effect: an open that fails to create
\* the sidecar file or to lock it performs no cleanup of shared state; a
\* sidecar file that was there before the call, and any lock held on it, are
\* as they were.
C4_LockFailNoSideEffect ==
    [][\A p \in Procs :
        (/\ pc'[p] # pc[p] \/ faults' # faults
         /\ failedAt'[p] \in {"sidecar", "lock"}
         /\ ~created'[p])
            => (sidecar' = sidecar /\ lockedBy' = lockedBy)]_vars

\* C5.  Sidecar lifetime: whenever a process holds an open handle on P, the
\* file at P-lock-hack exists and is the file that process opened and holds
\* locked; and whenever the file exists, some process is inside an open
\* attempt or a session on P.
C5_SidecarLifetime ==
    /\ \A p \in Procs : Holds(p) => (sidecar = ctx[p].fd /\ lockedBy[ctx[p].fd] = p)
    /\ sidecar # 0 => \E p \in Procs : pc[p] # "idle"

\* ----------------------------------------------------- single-caller claims
ReleaseOrder == <<"db", "env", "lock", "fd", "unlink">>
AcquireOrder == <<"fd", "lock", "env", "db">>
IsPrefix(a, b) == Len(a) <= Len(b) /\ SubSeq(b, 1, Len(a)) = a
Reverse(a) == [i \in 1 .. Len(a) |-> a[Len(a) + 1 - i]]
InLadder(p) == pc[p] \in {"fail_db", "fail_env", "fail_unlock", "fail_close", "fail_unlink"}
\* Process p holds nothing of a session: no descriptor, lock, environment or
\* database, and no sidecar file of its making is on disk.
HoldsNothing(p) ==
    /\ ctx[p] = NoCtx
    /\ \A i \in Inodes : lockedBy[i] # p
    /\ sidecar # 0 => creator[sidecar] # p
\* An open in which no step fails is neither kept waiting nor refused.
OpenUnhindered(p) ==
    /\ pc[p] = "lock" => LockObtainable(ctx[p].fd)
    /\ pc[p] = "dbopen" => ~ExclRefused(dbcfg[p], store)

\* C3.  Open-failure cleanup: when a step of store_bdb_open fails, open
\* returns no handle and the caller then holds no descriptor, lock,
\* environment or database, and no sidecar file it created remains; a
\* following open in which no step fails returns a handle.
C3_OpenFailureCleanup ==
    /\ (InLadder(Caller) \/ ret[Caller].op = "open_null") => handle[Caller] = "NULL"
    /\ (pc[Caller] = "idle" /\ ret[Caller].op = "open_null") => HoldsNothing(Caller)
    /\ ret[Caller].op = "open_null" => OpenUnhindered(Caller)
    /\ (pc[Caller] = "ready" /\ ret[Caller].op = "open_ok")
        => (handle[Caller] = "ctx" /\ ctx[Caller].db = "open" /\ ctx[Caller].env = "open"
            /\ lockedBy[ctx[Caller].fd] = Caller)
C3_Witness ==
    /\ pc[Caller] = "idle"
    /\ ret[Caller].op = "open_null"
    /\ failedAt[Caller] = "dbopen"
    /\ rel[Caller] = ReleaseOrder
    /\ HoldsNothing(Caller)

\* C6.  Close releases everything and preserves data: after store_bdb_close
\* on an open handle the database and environment are closed, the lock is
\* released, the descriptor is closed, the sidecar file does not exist, and
\* (the database close having reported no error) the store file holds exactly
\* the pairs present before close; a fresh open succeeds and sees them.
StoredPairs == [k \in DOMAIN expect |-> expect[k].val]
C6_CloseReleasesAndPreserves ==
    /\ (pc[Caller] = "idle" /\ ret[Caller].op = "close")
        => (/\ HoldsNothing(Caller)
            /\ handle[Caller] = "NULL"
            /\ sidecar = 0
            /\ store.exists
            /\ ~flushLost => store.data = StoredPairs)
    /\ ret[Caller].op = "close" => OpenUnhindered(Caller)
    /\ (pc[Caller] = "ready" /\ ret[Caller].op = "open_ok" /\ ~flushLost)
        => cache[Caller] = StoredPairs
C6_Witness ==
    /\ pc[Caller] = "idle"
    /\ ret[Caller].op = "close"
    /\ ~flushLost
    /\ Cardinality(DOMAIN store.data) = 2

\* C7.  Last write wins: a fetch of K (the engine's lookup not failing, no
\* database close having lost writes) returns exactly the value and length of
\* the most recent successful store to K, through the same handle or after
\* close and reopen; never an earlier value.
C7_LastWriteWins ==
    (ret[Caller].op = "fetch" /\ ret[Caller].rc \notin EngineErrors /\ ~flushLost
     /\ ret[Caller].key \in DOMAIN expect)
        => (/\ ret[Caller].found
            /\ ret[Caller].data = expect[ret[Caller].key].val
            /\ ret[Caller].size = expect[ret[Caller].key].len
            /\ ret[Caller].size = Len(ret[Caller].data))
C7_Witness ==
    /\ ret[Caller].op = "fetch"
    /\ ret[Caller].found
    /\ ret[Caller].key \in DOMAIN store.data
    /\ store.data[ret[Caller].key] # ret[Caller].data
    /\ rel[Caller] = <<>>
    /\ ret[Caller].size = 2

\* C8.  Delete then fetch: after a delete of K has removed it, a fetch of K
\* reports not-found (no value, length 0) until K is stored again; deleting a
\* key that was never stored reports a non-success code and leaves every
\* other key's value unchanged.
C8_DeleteThenFetch ==
    /\ [](\A p \in Procs :
            (ret[p].op = "fetch" /\ ret[p].key \in gone /\ ~flushLost)
                => (~ret[p].found /\ ret[p].size = 0))
    /\ [][\A p \in Procs :
            (ret'[p].op = "delete" /\ ret'[p] # ret[p])
                => (/\ ret'[p].key \notin (DOMAIN expect \cup gone) => ret'[p].rc # "0"
                    /\ ret'[p].rc = "0" => ret'[p].key \in gone'
                    /\ \A k \in DOMAIN cache[p] \ {ret'[p].key} :
                        k \in DOMAIN cache'[p] /\ cache'[p][k] = cache[p][k])]_vars
C8_Witness ==
    /\ ret[Caller].op = "fetch"
    /\ ret[Caller].key \in gone
    /\ DOMAIN cache[Caller] # {}
    /\ ret[Caller].rc = "DB_NOTFOUND"

\* C9.  Close is safe on null and safe to repeat: store_bdb_close with a null
\* pointer or a pointer to a null handle changes nothing; close sets the
\* caller's handle to null, so a second close is such a no-op and each
\* resource of a session is released exactly once.
Once(a) == \A i, j \in 1 .. Len(a) : a[i] = a[j] => i = j
C9_CloseNullIsNoop ==
    [][\A p \in Procs :
        /\ (ret'[p].op = "close_noop" /\ ret'[p] # ret[p])
            => UNCHANGED <<shared, local, acq, rel, relErr>>
        /\ (Between(p) /\ handle[p] = "NULL") => pc'[p] \notin {"close_env"}
        /\ (ret'[p].op = "close" /\ ret'[p] # ret[p])
            => (handle'[p] = "NULL" /\ rel'[p] = ReleaseOrder)
        /\ Once(rel'[p])]_vars
C9_Witness ==
    /\ ret[Caller].op = "close_noop"
    /\ pc[Caller] = "idle"
    /\ rel[Caller] = ReleaseOrder

\* C10.  Unwind is the exact reverse of acquisition and releases only what
\* was acquired: open acquires sidecar descriptor, lock, environment,
\* database in this order; a failure releases, in order, the database and the
\* environment (each only if created), the lock (only if taken), then the
\* descriptor and the sidecar file.
Unwind(a) == IF a = <<>> THEN <<>> ELSE Reverse(a) \o <<"unlink">>
C10_UnwindReversesAcquisition ==
    \A p \in Procs :
        /\ IsPrefix(acq[p], AcquireOrder)
        /\ failedAt[p] # "none" => IsPrefix(rel[p], Unwind(acq[p]))
        /\ (failedAt[p] # "none" /\ pc[p] = "idle") => rel[p] = Unwind(acq[p])
C10_Witness ==
    /\ pc[Caller] = "idle"
    /\ failedAt[Caller] = "dbcreate"
    /\ rel[Caller] = <<"env", "lock", "fd", "unlink">>

\* C11.  Fetch conflates miss and engine error: with a non-null handle,
\* store_bdb_fetch returns (no value, length 0) both when the key is absent
\* and when the engine's get reports an error, and a value with its length
\* only on a hit; the caller cannot tell the two failures apart.
Observed(r) == [found |-> r.found, data |-> r.data, size |-> r.size]
C11_FetchConflatesMissAndError ==
    \A p \in Procs :
        ret[p].op = "fetch"
            => (/\ ret[p].rc # "0" => Observed(ret[p]) = Observed(NoRet)
                /\ ret[p].rc = "0" => (ret[p].found /\ ret[p].size = Len(ret[p].data)
                                       /\ ret[p].size > 0)
                /\ ret[p].rc \in {"0", "DB_NOTFOUND"} \cup EngineErrors)
C11_Witness ==
    /\ ret[Caller].op = "fetch"
    /\ ret[Caller].rc \in EngineErrors
    /\ ret[Caller].key \in DOMAIN cache[Caller]
    /\ ~ret[Caller].found
    /\ ret[Caller].size = 0

\* C12.  Best-effort unwind: on every open-failure path and in close, when a
\* release call (database close, environment close, unlock) reports an
\* error, every remaining release step is still executed: the descriptor is
\* closed and the sidecar file unlinked whatever the earlier steps reported.
ReleaseAt(at) ==
    CASE at \in {"fail_db"} -> "db"
      [] at \in {"fail_env", "close_env"} -> "env"
      [] at \in {"fail_unlock", "close_unlock"} -> "lock"
      [] at \in {"fail_close", "close_fd"} -> "fd"
      [] at \in {"fail_unlink", "close_unlink"} -> "unlink"
      [] OTHER -> "none"
Releasing(p) == ReleaseAt(pc[p]) # "none"
Last(a) == a[Len(a)]
C12_BestEffortUnwind ==
    \A p \in Procs :
        /\ relErr[p] \subseteq {"db", "env", "lock"}
        /\ (Releasing(p) /\ rel[p] # <<>>)
            => IsPrefix(Append(rel[p], ReleaseAt(pc[p])), Unwind(acq[p]))
        /\ (pc[p] = "idle" /\ rel[p] # <<>>)
            => (/\ rel[p] = Unwind(acq[p])
                /\ ctx[p].fd = -1
                /\ sidecar = 0)
C12_Witness ==
    /\ pc[Caller] = "idle"
    /\ ret[Caller].op = "close"
    /\ relErr[Caller] = {"env", "lock"}
    /\ rel[Caller] = ReleaseOrder
    /\ ctx[Caller].fd = -1
    /\ sidecar = 0

\* C13.  Creation flags follow the probe: store_bdb_open asks for exclusive
\* create and sets the page size 512 exactly when the probe of the store path
\* fails with "does not exist"; when the file exists, or the probe fails for
\* another reason, it opens with plain create and sets no page size.
ExclCreate == [flags |-> {"DB_CREATE", "DB_EXCL"}, pagesize |-> 512]
PlainCreate == [flags |-> {"DB_CREATE"}, pagesize |-> 0]
C13_FlagsFollowProbe ==
    [][\A p \in Procs :
        (pc[p] = "probe" /\ pc'[p] = "dbopen")
            => (/\ dbcfg'[p] = IF ~store.exists /\ faults' = faults
                               THEN ExclCreate
                               ELSE PlainCreate
                /\ \A q \in Procs \ {p} : dbcfg'[q] = dbcfg[q])]_vars
C13_Witness ==
    /\ pc[Caller] = "dbopen"
    /\ ~store.exists
    /\ dbcfg[Caller] = PlainCreate
    /\ failedAt[Caller] = "none"

\* C14.  Probe-then-create is race-free among cooperating processes: when
\* every process goes through store_bdb_open / store_bdb_close only, the
\* exclusive-create database open never finds a store file that another
\* process created after this process's probe; no two processes are between
\* the lock step and the end of open at once.
PastLock(p) == pc[p] \in {"envcreate", "envopen", "dbcreate", "probe", "dbopen"}
C14_ProbeThenCreateRaceFree ==
    \A p \in Procs : pc[p] = "dbopen" => ~ExclRefused(dbcfg[p], store)
C14_OneOpenerPastLock ==
    \A p, q \in Procs : PastLock(p) /\ PastLock(q) => p = q

\* C15.  No memory leak on failed open: on every path of store_bdb_open that
\* returns no handle, the earliest one (the sidecar file cannot be created)
\* included, both the context object and its lock-file path buffer allocated
\* by bdb_sdata_new have been freed before the return.
C15_NoLeakOnFailedOpen ==
    \A p \in Procs :
        (pc[p] = "idle" /\ ret[p].op = "open_null") => heap[p] = NoHeap

\* C16.  The account menu never uses a null menu: after any sequence of menu
\* operations, a create or delete after which create_menu fails included,
\* the menu pointer is non-null whenever the loop asks it for the next
\* operation and when free_menu is called at exit.
C16_MenuNeverNull == mpc \in {"loop", "done"} => ~menu.null

\* C17.  Toggle rollback: after toggle_active (toggle_prefer_encrypt) returns,
\* the account's in-memory enabled (prefer_encrypt) flag is the negation of
\* its prior value if the account update succeeded and its prior value if the
\* update failed; the other flag is unchanged; the in-memory flags always
\* match the persisted record.
Persisted(m, db) ==
    ~m.null => (m.max = Len(db) /\ \A i \in 1 .. m.max : m.data[i].account = db[i])
C17_ToggleRollback ==
    /\ [](mpc = "loop" => Persisted(menu, accounts))
    /\ [][mlast' # mlast =>
            LET i == mlast'.index
                old == menu.data[i].account
                new == menu'.data[i].account
                ok == mlast'.rc = 0
            IN /\ old = mlast'.before[1]
               /\ mlast'.op = "active"
                    => (/\ new.enabled = IF ok THEN ~old.enabled ELSE old.enabled
                        /\ new.prefer_encrypt = old.prefer_encrypt)
               /\ mlast'.op = "prefer"
                    => (/\ new.prefer_encrypt = IF ok THEN ~old.prefer_encrypt
                                                ELSE old.prefer_encrypt
                        /\ new.enabled = old.enabled)
               /\ accounts'[i] = IF ok THEN new ELSE accounts[i]
               /\ \A j \in (1 .. menu.max) \ {i} :
                    menu'.data[j] = menu.data[j] /\ accounts'[j] = accounts[j]]_vars
C17_Witness ==
    /\ mpc = "loop"
    /\ mlast.op = "active"
    /\ mlast.rc # 0
    /\ ~menu.null
    /\ menu.data[mlast.index].account = mlast.before[1]
    /\ accounts[mlast.index] = mlast.before[1]

\* C18.  Null arguments are rejected without side effects: store_bdb_open
\* with a null path returns no handle and creates no sidecar file;
\* store_bdb_store and store_bdb_delete_record with a null handle return -1;
\* store_bdb_fetch with a null handle returns no value and leaves the
\* caller's length output unwritten; none of them calls the engine or changes
\* any store.
NullOps == {"open_nopath", "fetch_null", "store_null", "delete_null"}
C18_NullArgsRejected ==
    [][\A p \in Procs :
        (ret'[p].op \in NullOps /\ ret'[p] # ret[p])
            => (/\ UNCHANGED <<shared, local, acq, rel, relErr, expect, gone, flushLost>>
                /\ ret'[p].op = "open_nopath" => ret'[p].rc = "NULL"
                /\ ret'[p].op \in {"store_null", "delete_null"} => ret'[p].rc = "-1"
                /\ ret'[p].op = "fetch_null"
                    => (/\ ret'[p].rc = "NULL"
                        /\ ~ret'[p].found
                        /\ ret'[p].size = ret[p].size))]_vars
C18_Witness ==
    /\ pc[Caller] = "ready"
    /\ ret[Caller].op = "fetch_null"
    /\ ret[Caller].size = 2
    /\ cache[Caller] # EmptyDb
    /\ sidecar = ctx[Caller].fd

====
